---------------------------- MODULE Spec2Model ----------------------------
(***************************************************************************)
(* tools/parse-tgen.py: a controller (run) hands every discovered tgen log *)
(* to a multiprocessing Pool; each worker runs process_tgen_log on one     *)
(* source, line by line; the controller merges the per-source results and  *)
(* dumps them.  A SIGINT in the controller terminates the pool and exits.  *)
(***************************************************************************)
EXTENDS Integers, Sequences, FiniteSets, TLC

-----------------------------------------------------------------------------
(* Bounds of the model *)

\* number of lines of a log that is followed line by line
MaxLines == 3
\* largest number of log files find_file_paths hands to run
NumSources == 2
\* largest value of args.nprocesses
MaxProcs == 2

-----------------------------------------------------------------------------
(* Log lines.  A line is kept as what process_tgen_log looks at: which     *)
(* trigger substrings it contains, how many whitespace tokens it has, and  *)
(* the tokens the code indexes.                                            *)

None == "None"

Hosts == {"relay7", "relay8"}

\* fields: hostTrig  "Initializing traffic generator on host" occurs in the line
\*         xferTrig  "transfer-complete" or "transfer-error" occurs in the line
\*         ntok      number of whitespace separated tokens
\*         host      token 11
\*         kind6     what token 6 contains: "complete", "error" or "other"
\*         dir       the part of token 13 before '=': "read" or "write"
\*         bytes     the integer before '/' in token 13
\*         code      the error code inside token 10, None when token 10 has no
\*                   8th '-' field with an '=' in it
\*         cmd,fb,lb the integers of tokens 15, 17, 18 (milliseconds)
Line(hostTrig, xferTrig, ntok, host, kind6, dir, bytes, code) ==
    [hostTrig |-> hostTrig, xferTrig |-> xferTrig, ntok |-> ntok, host |-> host,
     kind6 |-> kind6, dir |-> dir, bytes |-> bytes, code |-> code,
     cmd |-> 1000, fb |-> 1200, lb |-> 1500]

Irrelevant    == Line(FALSE, FALSE, 9, None, "other", "read", 0, None)
HostLine(h)   == Line(TRUE, FALSE, 12, h, "other", "read", 0, None)
\* a host-identity line cut short: fewer than 12 tokens
HostShort     == Line(TRUE, FALSE, 11, None, "other", "read", 0, None)
\* a host-identity line that also contains a transfer trigger (a host called
\* "transfer-complete.example", say) and a server-side direction token
HostXfer      == Line(TRUE, TRUE, 20, "relay7", "complete", "write", 512, None)
Complete(b)   == Line(FALSE, TRUE, 20, None, "complete", "read", b, None)
Error(b, c)   == Line(FALSE, TRUE, 20, None, "error", "read", b, c)
\* server-side transfer lines: the direction token is "write"
WriteComplete == Line(FALSE, TRUE, 20, None, "complete", "write", 512, None)
\* the trigger occurs in the line but not in token 6
WriteOther    == Line(FALSE, TRUE, 20, None, "other", "write", 512, None)
ReadOther     == Line(FALSE, TRUE, 20, None, "other", "read", 512, None)
\* trigger-matching lines that fail field extraction
XferShort     == Line(FALSE, TRUE, 13, None, "complete", "read", 0, None)
CompleteShort == Line(FALSE, TRUE, 19, None, "complete", "read", 512, None)
ErrorNoCode   == Line(FALSE, TRUE, 20, None, "error", "read", 512, None)

\* the lines a log is made of when one source is followed line by line
Lines ==
    {Irrelevant, HostShort, HostXfer, WriteComplete, WriteOther, ReadOther,
     XferShort, CompleteShort, ErrorNoCode,
     Complete(512), Complete(1024),
     Error(512, "READ"), Error(1024, "READ"), Error(512, "TIMEOUT")}
    \cup {HostLine(h) : h \in Hosts}

\* the logs of a run over several sources: one for each way a task can end
\* and each kind of result it can hand back
PoolLogs ==
    { <<>>,
      <<Complete(512)>>,
      <<HostLine("relay7"), Complete(512)>>,
      <<HostLine("relay7"), Error(512, "READ")>>,
      <<HostLine("relay8"), Complete(1024)>>,
      <<HostLine("relay7"), WriteComplete>>,
      <<XferShort>> }

\* the position of the last token process_tgen_log indexes in each branch
HostToken    == 11
IoToken      == 13
ChkToken     == 19

-----------------------------------------------------------------------------
(* process_tgen_log: the locals of one task *)

\* d = {'firstbyte':{}, 'lastbyte':{}, 'errors':{}}; name = None; counts 0
EmptyData == [firstbyte |-> <<>>, lastbyte |-> <<>>, errors |-> <<>>]

\* d[key].append(v), creating the list when the key is new
Append1(m, key, v) ==
    IF key \in DOMAIN m
    THEN [m EXCEPT ![key] = Append(@, v)]
    ELSE [k \in DOMAIN m \cup {key} |-> IF k = key THEN <<v>> ELSE m[k]]

-----------------------------------------------------------------------------
(* Python floats.  A float is an IEEE 754 double: Significand significant   *)
(* bits, every operation rounded to the nearest double, ties to even.  The  *)
(* magnitude of a double is kept as a binary fixed-point number, a sequence *)
(* of IntWidth bits before the point and FracWidth bits after it, most      *)
(* significant bit first; that holds every double from 0.001 (one           *)
(* millisecond) up to 2^IntWidth seconds without loss.                      *)

Significand == 53
IntWidth == 11
FracWidth == 64
Thousand == 1000

\* the k lowest bits of the integer q
UIntBits(q, k) == [i \in 1..k |-> (q \div 2^(k - i)) % 2]

RECURSIVE PowMod(_)
\* 2^k modulo 1000
PowMod(k) ==
    IF k = 0 THEN 1
    ELSE LET h == PowMod(k \div 2)
         IN  (h * h * (IF k % 2 = 1 THEN 2 ELSE 1)) % Thousand

\* what is left of rem / 1000 after its first k bits (times 1000 * 2^k)
Remainder(rem, k) == (rem * PowMod(k)) % Thousand

\* the first k bits after the point of rem / 1000, for 0 <= rem < 1000
Fraction(rem, k) == [i \in 1..k |-> (2 * Remainder(rem, i - 1)) \div Thousand]

\* the position of the leading 1 of a bit sequence, 0 when there is none
Leading(bits) ==
    IF \A k \in DOMAIN bits : bits[k] = 0 THEN 0
    ELSE CHOOSE k \in DOMAIN bits :
            bits[k] = 1 /\ \A j \in 1..(k - 1) : bits[j] = 0

\* the bit sequence b plus one unit at position pos: the carry stops at the
\* last 0 at or before pos
AddUlp(b, pos) ==
    LET zeros == {k \in 1..pos : b[k] = 0}
        stop == IF zeros = {} THEN 0
                ELSE CHOOSE k \in zeros : \A j \in zeros : j <= k
    IN  [k \in 1..Len(b) |->
            IF k = stop THEN 1 ELSE IF k > stop /\ k <= pos THEN 0 ELSE b[k]]

\* the double nearest to the number bits (plus something below its last bit
\* when inexact): Significand bits from the leading 1 are kept
RoundToDouble(bits, inexact) ==
    LET p == Leading(bits)
        q == p + Significand - 1
    IN  IF p = 0 \/ q >= Len(bits) THEN bits
        ELSE LET kept == [k \in 1..Len(bits) |-> IF k <= q THEN bits[k] ELSE 0]
                 more == inexact \/ \E k \in (q + 2)..Len(bits) : bits[k] = 1
             IN  IF bits[q + 1] = 1 /\ (more \/ bits[q] = 1)
                 THEN AddUlp(kept, q) ELSE kept

\* int(x)/1000.0 (lines 147-151): the double nearest to ms / 1000
Seconds(ms) ==
    RoundToDouble(UIntBits(ms \div Thousand, IntWidth)
                    \o Fraction(ms % Thousand, FracWidth),
                  Remainder(ms % Thousand, FracWidth) # 0)

\* a < b for two magnitudes
Less(a, b) ==
    \E k \in DOMAIN a : a[k] < b[k] /\ \A j \in 1..(k - 1) : a[j] = b[j]

\* the borrow position k of a - b takes from position k - 1: the bits of a
\* from k on are a smaller number than those of b
Borrow(a, b, k) ==
    \E j \in k..Len(a) : a[j] < b[j] /\ \A i \in k..(j - 1) : a[i] = b[i]

\* a - b for two magnitudes with a >= b
Difference(a, b) ==
    [k \in 1..Len(a) |->
        (a[k] - b[k] - (IF Borrow(a, b, k + 1) THEN 1 ELSE 0) + 2) % 2]

\* the float x - y of two floats that are not negative
FloatSub(x, y) ==
    IF Less(x, y)
    THEN [neg |-> TRUE,  mag |-> RoundToDouble(Difference(y, x), FALSE)]
    ELSE [neg |-> FALSE, mag |-> RoundToDouble(Difference(x, y), FALSE)]

\* lines 147-156: fbtime-cmdtime and lbtime-cmdtime, each time first divided
\* by 1000.0 and the two floats then subtracted
Latency(t, cmd) == FloatSub(Seconds(t), Seconds(cmd))

\* the float that is written 0.2 when ms is 200: the double nearest to
\* ms / 1000
Decimal(ms) == [neg |-> FALSE, mag |-> Seconds(ms)]

-----------------------------------------------------------------------------


\* lines 122-133 with the source open: the task's locals.
\*   st   "queued", "running", "returned" (line 166), "discarded" (line 142),
\*        "failed" (an exception left the function), "killed" (worker killed),
\*        "dropped" (taken off the queue by p.terminate())
\*   w    the pool worker that runs the task (0: none yet)
\*   source  the handle the lines are read from, when the task opened it (the
\*        file of line 129 or the stdout pipe of line 127): "none", "open",
\*        "closed"
\*   xz   the xz child of Popen: "none", "running", "exited" (not waited on
\*        yet), "reaped"
\*   seen the lines the for loop has consumed so far, in order
\*   nth  the place of the task in the order in which the tasks handed
\*        something back to the pool (0: nothing yet)
NewTask ==
    [st |-> "queued", w |-> 0, source |-> "none", xz |-> "none",
     name |-> None, d |-> EmptyData, success_count |-> 0, error_count |-> 0,
     seen |-> <<>>, nth |-> 0]

\* RecordComplete with line 146 run twice
RecordCompleteTwice(t, line) ==
    LET counted == [t EXCEPT !.success_count = @ + 2]
    IN  IF line.ntok <= ChkToken
        THEN [counted EXCEPT !.st = "failed"]
        ELSE [counted EXCEPT
                !.d.firstbyte = Append1(@, line.bytes, Latency(line.fb, line.cmd)),
                !.d.lastbyte  = Append1(@, line.bytes, Latency(line.lb, line.cmd))]

\* RecordComplete without the append of line 156
RecordCompleteNoLast(t, line) ==
    LET counted == [t EXCEPT !.success_count = @ + 1]
    IN  IF line.ntok <= ChkToken
        THEN [counted EXCEPT !.st = "failed"]
        ELSE [counted EXCEPT
                !.d.firstbyte = Append1(@, line.bytes, Latency(line.fb, line.cmd))]

\* lines 145-156: the transfer-complete branch
RecordComplete(t, line) ==
    LET counted == [t EXCEPT !.success_count = @ + 1]
    IN  IF line.ntok <= ChkToken
        THEN [counted EXCEPT !.st = "failed"]
        ELSE [counted EXCEPT
                !.d.firstbyte = Append1(@, line.bytes, Latency(line.fb, line.cmd)),
                !.d.lastbyte  = Append1(@, line.bytes, Latency(line.lb, line.cmd))]

\* RecordError with a list that is started anew for every error
RecordErrorRestarts(t, line) ==
    LET counted == [t EXCEPT !.error_count = @ + 1]
    IN  IF line.code = None
        THEN [counted EXCEPT !.st = "failed"]
        ELSE [counted EXCEPT !.d.errors =
                [k \in DOMAIN @ \cup {line.code} |->
                    IF k = line.code THEN <<line.bytes>> ELSE @[k]]]

\* lines 158-162: the transfer-error branch
RecordError(t, line) ==
    LET counted == [t EXCEPT !.error_count = @ + 1]
    IN  IF line.code = None
        THEN [counted EXCEPT !.st = "failed"]
        ELSE [counted EXCEPT !.d.errors = Append1(@, line.code, line.bytes)]

\* TransferLine with the test of line 142 moved below the tests of token 7:
\* a server-side line that is neither a completion nor an error is skipped
TransferLineDiscardsCounted(t, line) ==
    IF line.ntok <= IoToken THEN [t EXCEPT !.st = "failed"]
    ELSE IF line.kind6 = "other" THEN t
    ELSE IF line.dir # "read" THEN [t EXCEPT !.st = "discarded"]
    ELSE IF line.kind6 = "complete" THEN RecordComplete(t, line)
    ELSE RecordError(t, line)

\* TransferLine without the test of line 142: server-side lines are counted
TransferLineKeepsServer(t, line) ==
    IF line.ntok <= IoToken THEN [t EXCEPT !.st = "failed"]
    ELSE IF line.kind6 = "complete" THEN RecordComplete(t, line)
    ELSE IF line.kind6 = "error" THEN RecordError(t, line)
    ELSE t

\* lines 139-162: a line with a transfer trigger
TransferLine(t, line) ==
    IF line.ntok <= IoToken THEN [t EXCEPT !.st = "failed"]
    ELSE IF line.dir # "read" THEN [t EXCEPT !.st = "discarded"]
    ELSE IF line.kind6 = "complete" THEN RecordComplete(t, line)
    ELSE IF line.kind6 = "error" THEN RecordError(t, line)
    ELSE t

\* HostIdentity with a guard on the number of tokens: a short line is skipped
HostIdentityGuarded(t, line) ==
    IF line.ntok <= HostToken THEN t
    ELSE [t EXCEPT !.name = line.host]

\* lines 136-137: the host-identity branch
HostIdentity(t, line) ==
    IF line.ntok <= HostToken THEN [t EXCEPT !.st = "failed"]
    ELSE [t EXCEPT !.name = line.host]

\* ProcessLine without the test "name is None" of line 136
ProcessLineRenames(t, line) ==
    LET u == [t EXCEPT !.seen = Append(@, line)]
    IN  IF line.hostTrig THEN HostIdentity(u, line)
        ELSE IF line.xferTrig THEN TransferLine(u, line)
        ELSE u

\* lines 135-162: the body of the for loop, for one line
ProcessLine(t, line) ==
    LET u == [t EXCEPT !.seen = Append(@, line)]
    IN  IF u.name = None /\ line.hostTrig THEN HostIdentity(u, line)
        ELSE IF line.xferTrig THEN TransferLine(u, line)
        ELSE u

\* lines 135-162: the for loop over the lines of log, from line n on; it
\* ends with the stream or when a line returns or raises
RECURSIVE ProcessLog(_, _, _)
ProcessLog(t, log, n) ==
    IF n > Len(log) \/ t.st # "running" THEN t
    ELSE ProcessLog(ProcessLine(t, log[n]), log, n + 1)

\* lines 164-166: the stream is exhausted; an xz child is waited on (its pipe
\* is not closed), a plain file is closed, stdin is left alone
ReturnResult(t, kind) ==
    [t EXCEPT !.st = "returned",
              !.xz = IF kind = "xz" THEN "reaped" ELSE @,
              !.source = IF kind = "plain" THEN "closed" ELSE @]

\* what a task hands back to the pool: None (line 142) or the list of line 166
Discard == [tag |-> "None"]
Item(t) ==
    IF t.st = "discarded" THEN Discard
    ELSE [tag |-> "list", name |-> t.name, d |-> t.d,
          success_count |-> t.success_count, error_count |-> t.error_count]

\* the process of a worker ends (SIGTERM from the pool, or the controller's
\* exit): a child that has already exited is reaped by init, a child that
\* still runs is left running.  source stays as the task left it: "closed"
\* only when the task closed it.
EndOfProcess(t) ==
    [t EXCEPT !.st = IF @ = "running" THEN "killed" ELSE @,
              !.xz = IF @ = "exited" THEN "reaped" ELSE @]


-----------------------------------------------------------------------------
(* The run *)

VARIABLES
    logfilepaths,   \* run: the kinds of the files found: "-", "xz" or "plain"
    nprocesses,     \* args.nprocesses
    pc,             \* where the controller is in run
    outcome,        \* how the controlling process ended
    worker,         \* the pool's worker processes: "alive" or "dead"
    task,           \* one process_tgen_log call per source
    r,              \* run: r, the list mr.get() returned
    item,           \* run: the position of the for loop of line 102 in r
    d,              \* run: d, the dictionary with 'nodes'
    name_count, noname_count, success_count, error_count,
    stats,          \* the stats.tgen.json file: None or what dump wrote
    interrupted     \* a SIGINT reached the controller inside the try block

vars == <<logfilepaths, nprocesses, pc, outcome, worker, task, r, item, d,
          name_count, noname_count, success_count, error_count, stats,
          interrupted>>

merge == <<r, item, d, name_count, noname_count, success_count, error_count>>

Sources == DOMAIN task
Workers == DOMAIN worker

\* find_file_paths (lines 168-180): "-" alone, or the files under the path
FileLists ==
    {<<"-">>} \cup
    UNION {[1..n -> {"xz", "plain"}] : n \in 0..NumSources}

Init ==
    /\ logfilepaths \in FileLists
    /\ nprocesses \in 1..MaxProcs
    /\ pc = "start"
    /\ outcome = None
    /\ worker = <<>>
    /\ task = <<>>
    /\ r = <<>>
    /\ item = 0
    /\ d = [nodes |-> <<>>]
    /\ name_count = 0 /\ noname_count = 0
    /\ success_count = 0 /\ error_count = 0
    /\ stats = None
    /\ interrupted = FALSE

Finished(t) == t.st \in {"returned", "discarded", "failed"}

\* task i goes on as t; when t is over, the pool gets what it hands back
\* after what the tasks before it handed back
HandBack(ts, i, t) ==
    [ts EXCEPT ![i] =
        IF Finished(t)
        THEN [t EXCEPT !.nth = Cardinality({j \in DOMAIN ts : Finished(ts[j])}) + 1]
        ELSE t]

\* the task worker w is running, if any
Running(w) == {i \in Sources : task[i].st = "running" /\ task[i].w = w}
Queued == {i \in Sources : task[i].st = "queued"}

\* every worker process ends
EndAll(ts) == [i \in DOMAIN ts |-> EndOfProcess(ts[i])]

\* lines 87-91: the pool is created, every source becomes a task of its own
\* (map_async cuts the list into chunks of one while there are at most
\* 4 * nprocesses sources), the pool is closed
StartPool ==
    /\ pc = "start"
    /\ pc' = "wait"
    /\ worker' = [w \in 1..nprocesses |-> "alive"]
    /\ task' = [i \in DOMAIN logfilepaths |-> NewTask]
    /\ UNCHANGED <<logfilepaths, nprocesses, outcome, merge, stats, interrupted>>

\* lines 120-133: what opening the source of a task gives
Opened(kind, w, ok) ==
    IF ~ok THEN [NewTask EXCEPT !.st = "failed", !.w = w]
    ELSE [NewTask EXCEPT !.st = "running", !.w = w,
            !.source = IF kind = "-" THEN "none" ELSE "open",
            !.xz = IF kind = "xz" THEN "running" ELSE "none"]

\* the workers that wait for a task
Idle == {w \in Workers : worker[w] = "alive" /\ Running(w) = {}}

\* an idle worker takes the next task of the queue and enters
\* process_tgen_log; open or Popen may raise.  The workers are
\* interchangeable: the task goes to the first idle one.
StartTask(w) ==
    /\ pc # "join"
    /\ w \in Idle /\ \A o \in Idle : w <= o
    /\ Queued # {}
    /\ LET i == CHOOSE q \in Queued : \A o \in Queued : q <= o
       IN  \E ok \in BOOLEAN :
             /\ (logfilepaths[i] = "-") => ok
             /\ task' = HandBack(task, i, Opened(logfilepaths[i], w, ok))
    /\ UNCHANGED <<logfilepaths, nprocesses, pc, outcome, worker, merge, stats,
                   interrupted>>

\* lines 135-162: the worker reads one more line of its source
ReadLine(w) ==
    /\ pc # "join"
    /\ worker[w] = "alive"
    /\ \E i \in Running(w), line \in Lines :
          /\ Len(task[i].seen) < MaxLines
          /\ task' = HandBack(task, i, ProcessLine(task[i], line))
    /\ UNCHANGED <<logfilepaths, nprocesses, pc, outcome, worker, merge, stats,
                   interrupted>>

\* lines 164-166: the source is exhausted (a pipe ends when xz has exited)
ReadEOF(w) ==
    /\ pc # "join"
    /\ worker[w] = "alive"
    /\ \E i \in Running(w) :
          /\ task[i].xz \in {"none", "exited"}
          /\ task' = HandBack(task, i, ReturnResult(task[i], logfilepaths[i]))
    /\ UNCHANGED <<logfilepaths, nprocesses, pc, outcome, worker, merge, stats,
                   interrupted>>

\* lines 135-166 in one piece: the worker reads its source, whose lines are
\* log, to the end of the for loop and, when the stream is exhausted, returns
RunTask(w) ==
    /\ pc # "join"
    /\ worker[w] = "alive"
    /\ \E i \in Running(w), log \in PoolLogs :
          LET t == ProcessLog(task[i], log, 1)
          IN  IF t.st = "running"
              THEN /\ task[i].xz \in {"none", "exited"}
                   /\ task' = HandBack(task, i, ReturnResult(t, logfilepaths[i]))
              ELSE task' = HandBack(task, i, t)
    /\ UNCHANGED <<logfilepaths, nprocesses, pc, outcome, worker, merge, stats,
                   interrupted>>

\* the xz child of line 126 exits (its output is written, or its pipe has
\* no reader left); with its parent gone it is reaped by init
XzExit(i) ==
    /\ task[i].xz = "running"
    /\ task' = [task EXCEPT ![i].xz =
                  IF worker[task[i].w] = "alive" THEN "exited" ELSE "reaped"]
    /\ UNCHANGED <<logfilepaths, nprocesses, pc, outcome, worker, merge, stats,
                   interrupted>>

\* mr.ready() (line 92): every task has handed back a result, or one has
\* handed back an exception
Failed == {i \in Sources : task[i].st = "failed"}
\* Ready as soon as one task has handed something back
ReadyAtFirst ==
    Failed # {} \/ \E i \in Sources : task[i].st \in {"returned", "discarded"}

Ready == Failed # {} \/ \A i \in Sources : task[i].st \in {"returned", "discarded"}

\* the controlling process ends: the pool's daemon workers end with it
ProcessExit(how) ==
    /\ pc' = "exited"
    /\ outcome' = how
    /\ worker' = [w \in Workers |-> "dead"]
    /\ task' = EndAll(task)

\* GetResults with the results in the order in which the tasks handed them
\* back
GetResultsAsCompleted ==
    /\ pc = "wait"
    /\ Ready /\ Failed = {}
    /\ r' = [k \in Sources |-> Item(task[CHOOSE i \in Sources : task[i].nth = k])]
    /\ item' = 1
    /\ pc' = "merge"
    /\ UNCHANGED <<logfilepaths, nprocesses, outcome, worker, task, d, name_count,
                   noname_count, success_count, error_count, stats, interrupted>>

\* lines 92-93: mr.get() returns the results in the order of logfilepaths
GetResults ==
    /\ pc = "wait"
    /\ Ready /\ Failed = {}
    /\ r' = [i \in Sources |-> Item(task[i])]
    /\ item' = 1
    /\ pc' = "merge"
    /\ UNCHANGED <<logfilepaths, nprocesses, outcome, worker, task, d, name_count,
                   noname_count, success_count, error_count, stats, interrupted>>

\* lines 92-93: mr.get() re-raises the exception of a task; it is no
\* KeyboardInterrupt, so it leaves run and main and ends the process
GetRaises ==
    /\ pc = "wait"
    /\ Failed # {}
    /\ ProcessExit("exception")
    /\ UNCHANGED <<logfilepaths, nprocesses, merge, stats, interrupted>>

\* lines 94-96: KeyboardInterrupt is raised inside the try block and
\* p.terminate() empties the task queue and signals every worker; a
\* signalled worker does nothing more before it dies
Interrupt ==
    /\ pc = "wait"
    /\ pc' = "join"
    /\ interrupted' = TRUE
    /\ task' = [i \in Sources |->
                  IF task[i].st = "queued" THEN [task[i] EXCEPT !.st = "dropped"]
                  ELSE task[i]]
    /\ UNCHANGED <<logfilepaths, nprocesses, outcome, worker, merge, stats>>

\* KeyboardInterrupt is raised after the try block (lines 100-116): nothing
\* catches it
InterruptLate ==
    /\ pc = "merge"
    /\ ProcessExit("exception")
    /\ UNCHANGED <<logfilepaths, nprocesses, merge, stats, interrupted>>

\* a worker dies of the signal of p.terminate(), whatever it was doing
WorkerDies(w) ==
    /\ pc = "join"
    /\ worker[w] = "alive"
    /\ worker' = [worker EXCEPT ![w] = "dead"]
    /\ task' = [i \in Sources |->
                  IF task[i].w = w THEN EndOfProcess(task[i]) ELSE task[i]]
    /\ UNCHANGED <<logfilepaths, nprocesses, pc, outcome, merge, stats, interrupted>>

\* JoinExit without the p.join() of line 97: sys.exit() right after
\* p.terminate()
ExitWithoutJoin ==
    /\ pc = "join"
    /\ pc' = "exited"
    /\ outcome' = "SystemExit"
    /\ UNCHANGED <<logfilepaths, nprocesses, worker, task, merge, stats, interrupted>>

\* JoinExit without the sys.exit() of line 98: run goes on to the merge
JoinFallsThrough ==
    /\ pc = "join"
    /\ \A w \in Workers : worker[w] = "dead"
    /\ pc' = "merge"
    /\ item' = 1
    /\ UNCHANGED <<logfilepaths, nprocesses, outcome, worker, task, r, d, name_count,
                   noname_count, success_count, error_count, stats, interrupted>>

\* lines 97-98: p.join() returns once every worker is dead, then sys.exit()
JoinExit ==
    /\ pc = "join"
    /\ \A w \in Workers : worker[w] = "dead"
    /\ pc' = "exited"
    /\ outcome' = "SystemExit"
    /\ UNCHANGED <<logfilepaths, nprocesses, worker, task, merge, stats, interrupted>>

\* Store that keeps the entry a name already has
StoreFirst(nodes, name, data) ==
    IF name \in DOMAIN nodes THEN nodes
    ELSE [n \in DOMAIN nodes \cup {name} |-> IF n = name THEN data ELSE nodes[n]]

\* line 110: d['nodes'][name] = data
Store(nodes, name, data) ==
    [n \in DOMAIN nodes \cup {name} |-> IF n = name THEN data ELSE nodes[n]]

\* MergeStep without the continue of line 108 for the totals: the counts of a
\* result without a host name are added as well
MergeStepCountsUnnamed ==
    /\ pc = "merge"
    /\ item <= Len(r)
    /\ item' = item + 1
    /\ LET it == r[item]
       IN  IF it.tag = "None"
           THEN UNCHANGED <<d, name_count, noname_count, success_count, error_count>>
           ELSE IF it.name = None
           THEN /\ noname_count' = noname_count + 1
                /\ success_count' = success_count + it.success_count
                /\ error_count' = error_count + it.error_count
                /\ UNCHANGED <<d, name_count>>
           ELSE /\ name_count' = name_count + 1
                /\ d' = [d EXCEPT !.nodes = Store(@, it.name, it.d)]
                /\ success_count' = success_count + it.success_count
                /\ error_count' = error_count + it.error_count
                /\ UNCHANGED noname_count
    /\ UNCHANGED <<logfilepaths, nprocesses, pc, outcome, worker, task, r, stats,
                   interrupted>>

\* MergeStep without lines 103-104: None is counted as a result without a
\* host name
MergeStepCountsNone ==
    /\ pc = "merge"
    /\ item <= Len(r)
    /\ item' = item + 1
    /\ LET it == r[item]
       IN  IF it.tag = "None" \/ it.name = None
           THEN /\ noname_count' = noname_count + 1
                /\ UNCHANGED <<d, name_count, success_count, error_count>>
           ELSE /\ name_count' = name_count + 1
                /\ d' = [d EXCEPT !.nodes = Store(@, it.name, it.d)]
                /\ success_count' = success_count + it.success_count
                /\ error_count' = error_count + it.error_count
                /\ UNCHANGED noname_count
    /\ UNCHANGED <<logfilepaths, nprocesses, pc, outcome, worker, task, r, stats,
                   interrupted>>

\* lines 102-112: one round of the merge loop
MergeStep ==
    /\ pc = "merge"
    /\ item <= Len(r)
    /\ item' = item + 1
    /\ LET it == r[item]
       IN  IF it.tag = "None"
           THEN UNCHANGED <<d, name_count, noname_count, success_count, error_count>>
           ELSE IF it.name = None
           THEN /\ noname_count' = noname_count + 1
                /\ UNCHANGED <<d, name_count, success_count, error_count>>
           ELSE /\ name_count' = name_count + 1
                /\ d' = [d EXCEPT !.nodes = Store(@, it.name, it.d)]
                /\ success_count' = success_count + it.success_count
                /\ error_count' = error_count + it.error_count
                /\ UNCHANGED noname_count
    /\ UNCHANGED <<logfilepaths, nprocesses, pc, outcome, worker, task, r, stats,
                   interrupted>>

\* json.dump (lines 193, 199): the keys of an object are written as strings
JsonObject(m) ==
    [s \in {ToString(k) : k \in DOMAIN m} |->
        m[CHOOSE k \in DOMAIN m : ToString(k) = s]]

JsonDump(data) ==
    [nodes |-> [n \in DOMAIN data.nodes |->
        [firstbyte |-> JsonObject(data.nodes[n].firstbyte),
         lastbyte  |-> JsonObject(data.nodes[n].lastbyte),
         errors    |-> data.nodes[n].errors]]]

\* lines 114-117 and 201: the loop is over, d is dumped, main returns
Dump ==
    /\ pc = "merge"
    /\ item > Len(r)
    /\ stats' = JsonDump(d)
    /\ ProcessExit("return")
    /\ UNCHANGED <<logfilepaths, nprocesses, merge, interrupted>>

\* the exit status the caller of the script sees: sys.exit(main()) with main
\* returning None and sys.exit() without argument both give 0, an exception
\* that nothing catches gives 1
ExitStatus(how) ==
    IF how \in {"return", "SystemExit"} THEN 0 ELSE 1

\* what happens around the tasks' reading
Around ==
    \/ StartPool
    \/ \E w \in Workers : StartTask(w)
    \/ \E i \in Sources : XzExit(i)
    \/ GetResults
    \/ GetRaises
    \/ Interrupt
    \/ InterruptLate
    \/ \E w \in Workers : WorkerDies(w)
    \/ JoinExit
    \/ MergeStep
    \/ Dump

\* a run over up to NumSources sources, each read in one piece
Next == Around \/ \E w \in Workers : RunTask(w)
Spec == Init /\ [][Next]_vars

\* a run over one source, followed line by line
InitTask == Init /\ Len(logfilepaths) = 1 /\ nprocesses = 1
NextTask ==
    \/ Around
    \/ \E w \in Workers : ReadLine(w)
    \/ \E w \in Workers : ReadEOF(w)
SpecTask == InitTask /\ [][NextTask]_vars

-----------------------------------------------------------------------------
(* What the claims speak of *)

\* the merge loop of run has gone over all of r
MergeDone == (pc = "merge" /\ item > Len(r)) \/ outcome = "return"

\* a task has handed something back: a result, None, or an exception
Over(t) == t.st \in {"returned", "discarded", "failed"}

\* a task has handed back a value: the list of line 166 or None
Returned(t) == t.st \in {"returned", "discarded"}

\* line k of a log is the log's host-identity line: the first line with the
\* host-identity marker
TakenAsHost(log, k) ==
    log[k].hostTrig /\ \A j \in 1..(k - 1) : ~log[j].hostTrig

\* the transfer events of a log: the lines with a transfer trigger that are
\* not the log's host-identity line
XferEvents(log) ==
    {k \in 1..Len(log) : log[k].xferTrig /\ ~TakenAsHost(log, k)}

\* the lines of a log that contain a transfer trigger
XferLines(log) == {k \in 1..Len(log) : log[k].xferTrig}

Least(S) == CHOOSE k \in S : \A o \in S : k <= o
Greatest(S) == CHOOSE k \in S : \A o \in S : k >= o

RECURSIVE Total(_)
\* the number of samples in all the lists of a mapping
Total(m) ==
    IF DOMAIN m = {} THEN 0
    ELSE LET k == CHOOSE x \in DOMAIN m : TRUE
         IN  Len(m[k]) + Total([x \in DOMAIN m \ {k} |-> m[x]])

RECURSIVE SumSuccess(_, _)
\* the sum of the success counts of the results at the positions S of rs
SumSuccess(rs, S) ==
    IF S = {} THEN 0
    ELSE LET k == CHOOSE x \in S : TRUE
         IN  rs[k].success_count + SumSuccess(rs, S \ {k})

RECURSIVE SumErrors(_, _)
\* the sum of the error counts of the results at the positions S of rs
SumErrors(rs, S) ==
    IF S = {} THEN 0
    ELSE LET k == CHOOSE x \in S : TRUE
         IN  rs[k].error_count + SumErrors(rs, S \ {k})

\* the transfer-complete and transfer-error events of a log
CompleteEvents(log) == {k \in XferEvents(log) : log[k].kind6 = "complete"}
ErrorEvents(log) == {k \in XferEvents(log) : log[k].kind6 = "error"}

RECURSIVE ErrorBytes(_, _, _)
\* the byte counts of the error events with code c among the first n lines
\* of a log, in the order of the log
ErrorBytes(log, c, n) ==
    IF n = 0 THEN <<>>
    ELSE IF n \in ErrorEvents(log) /\ log[n].code = c
         THEN Append(ErrorBytes(log, c, n - 1), log[n].bytes)
         ELSE ErrorBytes(log, c, n - 1)

RECURSIVE CompletePositions(_, _, _)
\* the positions of the transfer-complete events of b bytes among the first
\* n lines of a log, in the order of the log
CompletePositions(log, b, n) ==
    IF n = 0 THEN <<>>
    ELSE IF n \in CompleteEvents(log) /\ log[n].bytes = b
         THEN Append(CompletePositions(log, b, n - 1), n)
         ELSE CompletePositions(log, b, n - 1)

\* a Python mapping with its keys told apart by type: 1024 and u"1024" are
\* different keys
IntKeyed(m) ==
    [k \in {[type |-> "int", text |-> ToString(x)] : x \in DOMAIN m} |->
        m[CHOOSE x \in DOMAIN m : ToString(x) = k.text]]
StrKeyed(m) ==
    [k \in {[type |-> "str", text |-> s] : s \in DOMAIN m} |-> m[k.text]]

\* the aggregate run builds: host names and error codes are strings, byte
\* counts are ints (line 143)
Aggregate(a) ==
    [nodes |-> [n \in DOMAIN a.nodes |->
        [firstbyte |-> IntKeyed(a.nodes[n].firstbyte),
         lastbyte  |-> IntKeyed(a.nodes[n].lastbyte),
         errors    |-> StrKeyed(a.nodes[n].errors)]]]

\* json.load of a document dump wrote: the keys of every object are strings
JsonLoad(doc) ==
    [nodes |-> [n \in DOMAIN doc.nodes |->
        [firstbyte |-> StrKeyed(doc.nodes[n].firstbyte),
         lastbyte  |-> StrKeyed(doc.nodes[n].lastbyte),
         errors    |-> StrKeyed(doc.nodes[n].errors)]]]

\* line k of a log has a trigger and too few tokens for the fields of its
\* kind: a host-identity line without token 12, a transfer line without
\* token 14
Short(log, k) ==
    \/ log[k].hostTrig /\ log[k].ntok <= HostToken
    \/ log[k].xferTrig /\ log[k].ntok <= IoToken

\* process_tgen_log indexes a token that line k of a log does not have: in
\* the host-identity branch (line 137), at the direction token (line 140),
\* at the timing tokens of a completed read (lines 147-151) or at the error
\* code of a failed read (line 160)
Unparsable(log, k) ==
    \/ TakenAsHost(log, k) /\ log[k].ntok <= HostToken
    \/ /\ k \in XferEvents(log)
       /\ \/ log[k].ntok <= IoToken
          \/ /\ log[k].dir = "read"
             /\ \/ log[k].kind6 = "complete" /\ log[k].ntok <= ChkToken
                \/ log[k].kind6 = "error" /\ log[k].code = None

\* nothing of a run has reached the merge
NothingMerged ==
    /\ pc # "merge"
    /\ r = <<>> /\ d.nodes = <<>> /\ stats = None
    /\ name_count = 0 /\ noname_count = 0
    /\ success_count = 0 /\ error_count = 0

\* the sources that returned a result with host name n
NamedAs(n) == {i \in Sources : task[i].st = "returned" /\ task[i].name = n}

\* the lines of a log with the host-identity marker
HostLines(log) == {k \in 1..Len(log) : log[k].hostTrig}

\* the positions of r that hold a result with a host name, without a host
\* name
Named == {i \in 1..Len(r) : r[i].tag = "list" /\ r[i].name # None}
Unnamed == {i \in 1..Len(r) : r[i].tag = "list" /\ r[i].name = None}

\* the aggregate run has built is what the results at the positions other
\* than i account for
BuiltWithout(i) ==
    /\ DOMAIN d.nodes = {r[j].name : j \in Named \ {i}}
    /\ name_count = Cardinality(Named \ {i})
    /\ noname_count = Cardinality(Unnamed \ {i})
    /\ success_count = SumSuccess(r, Named \ {i})
    /\ error_count = SumErrors(r, Named \ {i})

\* the direction token of line k of a log exists and lacks "read"
NotRead(log, k) == log[k].ntok > IoToken /\ log[k].dir # "read"

-----------------------------------------------------------------------------
(* C1: when the task of a source fails (open or Popen raises, or a line     *)
(* with a trigger fails field extraction) and no interrupt arrives, the     *)
(* run still lets every other task hand back its result and ends with a     *)
(* dumped aggregate.                                                        *)
C1_FailureIsolated ==
    (pc = "exited" /\ ~interrupted /\ Failed # {}) =>
        /\ stats # None
        /\ \A i \in Sources : Over(task[i])

(* C2: no task is over (result, None or exception) while the file it opened *)
(* is still open or its xz child is still running or not waited on.         *)
C2_ResourcesReleased ==
    \A i \in Sources :
        Over(task[i]) =>
            /\ ~(logfilepaths[i] = "plain" /\ task[i].source = "open")
            /\ task[i].xz \notin {"running", "exited"}


(* C3 as stated: a source whose first line with a transfer trigger has a    *)
(* direction token without "read" ends as Discard and, once the merge is    *)
(* done, has put nothing into nodes or into a total.                        *)
C3_FirstTransferLineNotRead ==
    \A i \in Sources :
        LET log == task[i].seen
            X == XferLines(log)
        IN  (Returned(task[i]) /\ X # {} /\ NotRead(log, Least(X))) =>
                /\ task[i].st = "discarded"
                /\ MergeDone => BuiltWithout(i)

(* C3 amended: a source whose first transfer event, i.e. its first line     *)
(* with a transfer trigger that is not taken as the host-identity line,     *)
(* has a direction token without "read" ends as Discard at that line,       *)
(* whatever was consumed before; once the merge is done it has put nothing  *)
(* into nodes or into a total.                                              *)
C3_FirstEventNotRead ==
    \A i \in Sources :
        LET log == task[i].seen
            E == XferEvents(log)
        IN  (E # {} /\ NotRead(log, Least(E))) =>
                /\ task[i].st = "discarded"
                /\ Least(E) = Len(log)
                /\ pc = "merge" => r[i] = Discard
                /\ MergeDone => BuiltWithout(i)

\* a source with a host-identity line before its server-side transfer line
\* has been discarded and the merge is done
C3_Witness ==
    /\ MergeDone
    /\ \E i \in Sources :
          /\ task[i].st = "discarded"
          /\ Len(task[i].seen) >= 2
          /\ task[i].seen[1].hostTrig
          /\ task[i].name # None


(* C4: once the merge is done, every host name carried by some result has   *)
(* one entry in nodes, the data of the last result of r with that name,     *)
(* and the totals and the count of named sources cover every named result,  *)
(* also those whose entry was overwritten.                                  *)
C4_LastWriteWins ==
    MergeDone =>
        /\ \A n \in Hosts :
              LET P == {i \in Named : r[i].name = n}
              IN  IF P = {} THEN n \notin DOMAIN d.nodes
                  ELSE n \in DOMAIN d.nodes /\ d.nodes[n] = r[Greatest(P)].d
        /\ name_count = Cardinality(Named)
        /\ success_count = SumSuccess(r, Named)
        /\ error_count = SumErrors(r, Named)

\* the merge is done over two results with the same host name, different
\* data and counts that are not zero
C4_Witness ==
    /\ MergeDone
    /\ \E i, j \in Named :
          /\ i < j
          /\ r[i].name = r[j].name
          /\ r[i].d # r[j].d
          /\ r[i].success_count > 0
          /\ r[j].error_count > 0


(* C5: once an interrupt has arrived while the sources were dispatched or   *)
(* processed, the merge loop and dump never run: the controller is in the   *)
(* handler or has exited, nothing is merged, no stats file is written.      *)
C5_NoAggregateOnInterrupt ==
    interrupted =>
        /\ pc \in {"join", "exited"}
        /\ stats = None
        /\ item = 0 /\ d.nodes = <<>>
        /\ name_count = 0 /\ noname_count = 0

\* the run has exited after an interrupt that came when one task had handed
\* back a result and another was being read
C5_Witness ==
    /\ interrupted /\ pc = "exited"
    /\ \E i, j \in Sources :
          /\ task[i].st = "returned" /\ task[i].name # None
          /\ task[j].st = "killed"

(* C6: a run ended by an interrupt during dispatch ends in a way its caller *)
(* can tell from a completed run: its exit status is not the one of a       *)
(* completed run.                                                           *)
C6_InterruptSeenByCaller ==
    (pc = "exited" /\ interrupted) => ExitStatus(outcome) # ExitStatus("return")

(* C7: once the run has exited after an interrupt (pool terminated and      *)
(* joined), no xz child of any task is still running or waits to be reaped. *)
C7_NoXzAfterCancel ==
    (pc = "exited" /\ interrupted) =>
        \A i \in Sources : task[i].xz \notin {"running", "exited"}


(* C8: in every result process_tgen_log returns, success_count is the       *)
(* number of transfer-complete events of the log, firstbyte and lastbyte    *)
(* hold that many samples each, and under every byte count both hold as     *)
(* many samples as the log has transfer-complete events of that byte count. *)
C8_SuccessSamples ==
    \A i \in Sources :
        task[i].st = "returned" =>
            LET t == task[i]
                C == CompleteEvents(t.seen)
            IN  /\ t.success_count = Cardinality(C)
                /\ Total(t.d.firstbyte) = t.success_count
                /\ Total(t.d.lastbyte) = t.success_count
                /\ DOMAIN t.d.firstbyte = {t.seen[k].bytes : k \in C}
                /\ DOMAIN t.d.lastbyte = DOMAIN t.d.firstbyte
                /\ \A b \in DOMAIN t.d.firstbyte :
                      /\ Len(t.d.firstbyte[b]) = Cardinality({k \in C : t.seen[k].bytes = b})
                      /\ Len(t.d.lastbyte[b]) = Len(t.d.firstbyte[b])

\* a result is returned for a log of three completed transfers, two of them
\* of the same byte count
C8_Witness ==
    \E i \in Sources :
        /\ task[i].st = "returned"
        /\ task[i].success_count = 3
        /\ Cardinality(DOMAIN task[i].d.firstbyte) = 2

(* C9: in every result process_tgen_log returns, error_count is the number  *)
(* of transfer-error events of the log and the number of entries of all     *)
(* errors lists; the list of an error code holds the byte counts of the     *)
(* events with that code, in the order of the log.  A log of one error line *)
(* with 512 bytes gives errors[code] = [512] and error_count = 1.           *)
C9_ErrorSamples ==
    \A i \in Sources :
        task[i].st = "returned" =>
            LET t == task[i]
                E == ErrorEvents(t.seen)
            IN  /\ t.error_count = Cardinality(E)
                /\ t.error_count = Total(t.d.errors)
                /\ DOMAIN t.d.errors = {t.seen[k].code : k \in E}
                /\ \A c \in DOMAIN t.d.errors :
                      t.d.errors[c] = ErrorBytes(t.seen, c, Len(t.seen))
                /\ t.seen = <<Error(512, "READ")>> =>
                      t.d.errors = ("READ" :> <<512>>) /\ t.error_count = 1

\* a result is returned for a log with two errors of one code and one of
\* another
C9_Witness ==
    \E i \in Sources :
        /\ task[i].st = "returned"
        /\ task[i].error_count = 3
        /\ "TIMEOUT" \in DOMAIN task[i].d.errors
        /\ "READ" \in DOMAIN task[i].d.errors
        /\ task[i].d.errors["READ"] = <<1024, 512>>

(* C10: the host name of a task is at every moment the host of the first    *)
(* host-identity line consumed so far, None when there is none, and once    *)
(* set no step changes it.                                                  *)
C10_HostNameOnce ==
    /\ [](\A i \in Sources :
            LET log == task[i].seen
                H == HostLines(log)
            IN  task[i].name =
                  IF H # {} /\ log[Least(H)].ntok > HostToken
                  THEN log[Least(H)].host ELSE None)
    /\ [][\A i \in Sources :
            task[i].name # None => task'[i].name = task[i].name]_vars

\* a result is returned for a log whose second host-identity line names
\* another host than the first
C10_Witness ==
    \E i \in Sources :
        /\ task[i].st = "returned"
        /\ Len(task[i].seen) >= 2
        /\ task[i].seen[1] = HostLine("relay8")
        /\ task[i].seen[2] = HostLine("relay7")
        /\ task[i].name = "relay8"

(* C11: a round of the merge loop over a result without a host name adds    *)
(* one to noname_count and changes nothing else; a round over a result with *)
(* a host name stores its data in nodes under the name, adds one to         *)
(* name_count and adds its two counts to the totals.  So at every point of  *)
(* the merge the totals are the sums over the named results gone over.      *)
C11_MergeRound ==
    /\ [][(pc = "merge" /\ item' = item + 1) =>
            LET it == r[item]
            IN  /\ (it.tag = "list" /\ it.name = None) =>
                      /\ noname_count' = noname_count + 1
                      /\ UNCHANGED <<d, name_count, success_count, error_count>>
                /\ (it.tag = "list" /\ it.name # None) =>
                      /\ DOMAIN d'.nodes = DOMAIN d.nodes \cup {it.name}
                      /\ d'.nodes[it.name] = it.d
                      /\ \A n \in DOMAIN d.nodes \ {it.name} :
                            d'.nodes[n] = d.nodes[n]
                      /\ name_count' = name_count + 1
                      /\ success_count' = success_count + it.success_count
                      /\ error_count' = error_count + it.error_count
                      /\ UNCHANGED noname_count]_vars
    /\ [](pc = "merge" =>
            LET N == {i \in Named : i < item}
            IN  /\ success_count = SumSuccess(r, N)
                /\ error_count = SumErrors(r, N)
                /\ name_count = Cardinality(N)
                /\ noname_count = Cardinality({i \in Unnamed : i < item}))

\* the merge is done over a result with a host name and a result without
\* one that counted a transfer
C11_Witness ==
    /\ MergeDone
    /\ Named # {}
    /\ \E i \in Unnamed : r[i].success_count > 0

(* C12: in every result process_tgen_log returns, the samples under a byte  *)
(* count are, in the order of the log, the float (fb - cmd) / 1000 in       *)
(* firstbyte and the float (lb - cmd) / 1000 in lastbyte of the completed   *)
(* transfers of that byte count, none of them negative when cmd <= fb <=    *)
(* lb.  A log of a host-identity line naming relay7 and one completed       *)
(* transfer of 1024 bytes with cmd=1000, fb=1200, lb=1500 gives firstbyte   *)
(* {1024: [0.2]}, lastbyte {1024: [0.5]}, success_count 1, error_count 0.   *)
C12_LatencySamples ==
    \A i \in Sources :
        task[i].st = "returned" =>
            LET t == task[i]
                log == t.seen
            IN  /\ \A b \in DOMAIN t.d.firstbyte :
                      LET P == CompletePositions(log, b, Len(log))
                      IN  /\ t.d.firstbyte[b] =
                                [k \in 1..Len(P) |->
                                    Decimal(log[P[k]].fb - log[P[k]].cmd)]
                          /\ t.d.lastbyte[b] =
                                [k \in 1..Len(P) |->
                                    Decimal(log[P[k]].lb - log[P[k]].cmd)]
                          /\ \A k \in 1..Len(P) :
                                (log[P[k]].cmd <= log[P[k]].fb
                                    /\ log[P[k]].fb <= log[P[k]].lb) =>
                                  /\ ~t.d.firstbyte[b][k].neg
                                  /\ ~t.d.lastbyte[b][k].neg
                /\ log = <<HostLine("relay7"), Complete(1024)>> =>
                      /\ t.name = "relay7"
                      /\ t.d.firstbyte = (1024 :> <<Decimal(200)>>)
                      /\ t.d.lastbyte = (1024 :> <<Decimal(500)>>)
                      /\ t.success_count = 1 /\ t.error_count = 0

(* C13 as stated: at every point of a task, success_count + error_count is  *)
(* at most the number of lines with a transfer trigger consumed so far, and *)
(* in a result returned at the end of the stream the two are equal.         *)
C13_CountsAllTransferLines ==
    \A i \in Sources :
        LET t == task[i]
        IN  /\ t.success_count + t.error_count <= Cardinality(XferLines(t.seen))
            /\ t.st = "returned" =>
                  t.success_count + t.error_count = Cardinality(XferLines(t.seen))

(* C13 amended: at every point of a task, success_count + error_count is at *)
(* most the number of lines with a transfer trigger consumed so far, and in *)
(* a result returned at the end of the stream it is the number of those     *)
(* lines that were not taken as the host-identity line and carry            *)
(* transfer-complete or transfer-error in token 7.                          *)
C13_CountsTransferEvents ==
    \A i \in Sources :
        LET t == task[i]
        IN  /\ t.success_count + t.error_count <= Cardinality(XferLines(t.seen))
            /\ t.st = "returned" =>
                  t.success_count + t.error_count =
                      Cardinality(CompleteEvents(t.seen) \cup ErrorEvents(t.seen))

\* a result is returned for a log with a completed transfer, an errored one
\* and a read line whose token 7 carries neither trigger
C13_Witness ==
    \E i \in Sources :
        /\ task[i].st = "returned"
        /\ task[i].success_count = 1
        /\ task[i].error_count = 1
        /\ \E k \in 1..Len(task[i].seen) : task[i].seen[k] = ReadOther

(* C14: the stats file a completed run has written, parsed back, is the     *)
(* aggregate run built: the same keys at every level (host names, byte      *)
(* counts, error codes) with the same values.                               *)
C14_DumpRoundTrip ==
    outcome = "return" => JsonLoad(stats) = Aggregate(d)

(* C15: after an interrupt during dispatch the controller is in the handler *)
(* until it exits; it exits only from a state in which every worker process *)
(* is dead; no source is left in the queue, and a source that had not been  *)
(* started when the interrupt was handled is never started.                 *)
C15_TerminateJoinExit ==
    /\ [](interrupted =>
            /\ pc \in {"join", "exited"}
            /\ \A i \in Sources : task[i].st # "queued")
    /\ [][(interrupted /\ pc' = "exited" /\ pc # "exited") =>
            /\ pc = "join"
            /\ \A w \in Workers : worker[w] = "dead"]_vars
    /\ [][interrupted =>
            \A i \in Sources :
                task[i].st = "dropped" => task'[i].st = "dropped"]_vars

\* the run has exited after an interrupt that found one source being read
\* and another still in the queue
C15_Witness ==
    /\ interrupted /\ pc = "exited"
    /\ \E i, j \in Sources :
          /\ task[i].st = "killed"
          /\ task[j].st = "dropped"

(* C16 as stated: a task that has consumed a line with a trigger and too    *)
(* few tokens (a host-identity line of fewer than 12, a transfer line of    *)
(* fewer than 14) has failed: it hands back neither a result nor None, and  *)
(* nothing it counted reaches the merge.                                    *)
C16_ShortLineFails ==
    \A i \in Sources :
        (\E k \in 1..Len(task[i].seen) : Short(task[i].seen, k)) =>
            /\ task[i].st = "failed"
            /\ NothingMerged

(* C16 amended: a task that has consumed a line at which process_tgen_log   *)
(* indexes a token the line does not have has failed at that line: it       *)
(* hands back neither a result nor None, and nothing it counted, the count  *)
(* of the bad line included, reaches the merge.                             *)
C16_UnparsableLineFails ==
    \A i \in Sources :
        \A k \in 1..Len(task[i].seen) :
            Unparsable(task[i].seen, k) =>
                /\ task[i].st = "failed"
                /\ k = Len(task[i].seen)
                /\ NothingMerged

\* the run has ended on a task that failed at a completed transfer without
\* its timing tokens, after it had counted another
C16_Witness ==
    /\ pc = "exited"
    /\ \E i \in Sources :
          /\ task[i].st = "failed"
          /\ task[i].success_count = 2
          /\ task[i].name # None
          /\ task[i].seen[Len(task[i].seen)] = CompleteShort

C18_SubmissionOrder ==
    /\ pc = "merge" => r = [i \in Sources |-> Item(task[i])]
    /\ MergeDone =>
          \A n \in Hosts :
              IF NamedAs(n) = {} THEN n \notin DOMAIN d.nodes
              ELSE /\ n \in DOMAIN d.nodes
                   /\ d.nodes[n] = task[Greatest(NamedAs(n))].d

\* the merge is done over two results of two workers that carry the same
\* host name and different data, the later source of the list having handed
\* back its result first
C18_Witness ==
    /\ MergeDone
    /\ nprocesses = 2
    /\ \E i, j \in Sources :
          /\ i < j
          /\ task[i].st = "returned" /\ task[j].st = "returned"
          /\ task[i].name = task[j].name /\ task[i].name # None
          /\ task[i].d # task[j].d
          /\ task[j].nth < task[i].nth

(* C19: the merge loop runs, and the aggregate is dumped, only when every   *)
(* task has handed back its result or None: r then holds one item per       *)
(* source; and the aggregate and the counts change only in a step of the    *)
(* controller's merge loop, in which no task and no worker changes.         *)
C19_MergeAfterAllTasks ==
    /\ []((pc = "merge" \/ item > 0 \/ outcome = "return") =>
            /\ \A i \in Sources : Returned(task[i])
            /\ Len(r) = Len(logfilepaths))
    /\ [][<<d, name_count, noname_count, success_count, error_count>>' #
            <<d, name_count, noname_count, success_count, error_count>> =>
                /\ pc = "merge" /\ pc' = "merge"
                /\ item' = item + 1
                /\ \A i \in Sources : Returned(task[i])
                /\ UNCHANGED <<task, worker>>]_vars

\* a run over two sources and two workers has dumped an aggregate with an
\* entry
C19_Witness ==
    /\ outcome = "return"
    /\ nprocesses = 2
    /\ Len(logfilepaths) = 2
    /\ d.nodes # <<>>
    /\ \A i \in Sources : task[i].st = "returned" /\ task[i].w = i

(* C20: once the merge of a run without interrupt or failed task is done,   *)
(* name_count + noname_count + the number of sources that returned None is  *)
(* the number of sources, and nodes has at most name_count entries, exactly *)
(* name_count when no two results carry the same host name.                 *)
C20_SourceAccounting ==
    MergeDone =>
        LET discards == {i \in 1..Len(r) : r[i].tag = "None"}
        IN  /\ name_count + noname_count + Cardinality(discards)
                  = Len(logfilepaths)
            /\ Cardinality(DOMAIN d.nodes) <= name_count
            /\ Cardinality(DOMAIN d.nodes) = name_count
                  <=> \A i, j \in Named : r[i].name = r[j].name => i = j

\* the merge is done over a discarded source and a source without a host
\* name, or over two sources with the same host name
C20_Witness ==
    /\ outcome = "return"
    /\ Len(r) = 2
    /\ \/ r[1].tag = "None" /\ 2 \in Unnamed
       \/ Named = {1, 2} /\ r[1].name = r[2].name

=============================================================================
